---------------------------- MODULE Spec2Model ----------------------------
(***************************************************************************)
(* Model of the two project generators                                     *)
(*   src/django/create_django_project.py                                   *)
(*   src/fastapi/create_fast_api_project.py                                *)
(* and of the parts of their template modules that decide behaviour        *)
(* (which templates are passed through str.format and what braces they     *)
(* contain).  One run of one generator is one behaviour: the command line, *)
(* the host OS and the pre-existing filesystem are chosen in Init; every   *)
(* filesystem call, the venv creation and every external command may fail. *)
(*                                                                         *)
(* Paths are sequences of components (pathlib's Path.parts); an absolute   *)
(* path starts with the root component "/"; <<>> is the current working    *)
(* directory.                                                              *)
(***************************************************************************)
EXTENDS Integers, Sequences, FiniteSets, TLC

\* ------------------------------------------------------------------ bounds
\* at most this many command-line arguments after the script name
MaxArgs == 2
\* at most this many individually chosen pre-existing files in the target
MaxPrior == 2

\* ------------------------------------------------------------------- paths
Root == "/"

IsAbsolute(p) == Len(p) > 0 /\ p[1] = Root

\* pathlib: path / "name"
Join(p, c) == Append(p, c)

\* pathlib: path.parent (the parent of the cwd and of the root is itself)
Parent(p) ==
    IF p = <<>> \/ p = <<Root>> THEN p ELSE SubSeq(p, 1, Len(p) - 1)

\* p is q or lies below q
IsUnder(p, q) == Len(p) >= Len(q) /\ SubSeq(p, 1, Len(q)) = q

\* the path a process whose working directory is cwd reaches through p
Resolve(cwd, p) == IF IsAbsolute(p) THEN p ELSE cwd \o p

Sep(os) == IF os = "Windows" THEN "\\" ELSE "/"

RECURSIVE JoinStr(_, _, _)
JoinStr(p, i, sep) ==
    IF i > Len(p) THEN ""
    ELSE IF i = Len(p) THEN p[i]
    ELSE p[i] \o sep \o JoinStr(p, i + 1, sep)

\* str(path)
PathStr(p, os) ==
    IF p = <<>> THEN "."
    ELSE IF IsAbsolute(p) THEN Sep(os) \o JoinStr(p, 2, Sep(os))
    ELSE JoinStr(p, 1, Sep(os))

\* ------------------------------------------------------------- str.format
\* A format string is a sequence of tokens: the brace characters "{" and
\* "}" are tokens of their own, inside a replacement field the field name
\* and (after a ":" token) the format spec are one token each, every other
\* token is literal text.
RECURSIVE ClosingBrace(_, _)
ClosingBrace(t, i) ==
    IF i > Len(t) THEN 0
    ELSE IF t[i] = "}" THEN i
    ELSE ClosingBrace(t, i + 1)

RECURSIVE FormatFrom(_, _, _, _)
FormatFrom(t, i, kw, out) ==
    IF i > Len(t) THEN [err |-> "", msg |-> "", text |-> out]
    ELSE IF t[i] = "{" THEN
        IF i < Len(t) /\ t[i + 1] = "{"
        THEN FormatFrom(t, i + 2, kw, out \o "{")
        ELSE LET j == ClosingBrace(t, i + 1)
                 name == IF j > i + 1 THEN t[i + 1] ELSE ""
                 spec == IF j > i + 3 /\ t[i + 2] = ":" THEN t[i + 3] ELSE ""
             IN  IF j = 0
                 THEN [err |-> "ValueError",
                       msg |-> "expected '}' before end of string",
                       text |-> ""]
                 ELSE IF name = ""
                 THEN [err |-> "IndexError",
                       msg |-> "Replacement index 0 out of range for positional args tuple",
                       text |-> ""]
                 ELSE IF name \notin DOMAIN kw
                 THEN [err |-> "KeyError",
                       msg |-> "'" \o name \o "'",
                       text |-> ""]
                 ELSE IF spec # ""
                 THEN [err |-> "ValueError",
                       msg |-> "Invalid format specifier",
                       text |-> ""]
                 ELSE FormatFrom(t, j + 1, kw, out \o kw[name])
    ELSE IF t[i] = "}" THEN
        IF i < Len(t) /\ t[i + 1] = "}"
        THEN FormatFrom(t, i + 2, kw, out \o "}")
        ELSE [err |-> "ValueError",
              msg |-> "Single '}' encountered in format string",
              text |-> ""]
    ELSE FormatFrom(t, i + 1, kw, out \o t[i])

\* template.format(**kw)
Format(t, kw) == FormatFrom(t, 1, kw, "")


\* --------------------------------------------------------------- templates
\* Literal template texts are abbreviated to their first line; what is kept
\* exactly is which templates are format strings and where their braces are.
Lit(text) == [fmt |-> FALSE, tokens |-> <<text>>]
Fmt(tokens) == [fmt |-> TRUE, tokens |-> tokens]

\* django_templates.py
SETTINGS_TEMPLATE == "from pathlib import Path # settings: ROOT_URLCONF = 'config.urls'"
URLS_TEMPLATE == "from django.contrib import admin # urls: include('usecase1.urls')"
WSGI_TEMPLATE == "import os # wsgi: get_wsgi_application()"
ASGI_TEMPLATE == "import os # asgi: get_asgi_application()"
\* the modules of the generated project that the text of SETTINGS_TEMPLATE
\* names (INSTALLED_APPS, ROOT_URLCONF, WSGI_APPLICATION) and that the text
\* of URLS_TEMPLATE includes, each as its dotted path
SETTINGS_MODULES ==
    {<<"usecase1", "apps">>, <<"usecase2", "apps">>, <<"config", "urls">>,
     <<"config", "wsgi">>}
URLS_MODULES == {<<"usecase1", "urls">>, <<"usecase2", "urls">>}
\* the file "manage.py migrate", run in the project directory, imports a
\* module of the project from
ModuleFile(project_path, m) ==
    project_path \o SubSeq(m, 1, Len(m) - 1) \o <<m[Len(m)] \o ".py">>

MANAGE_TEMPLATE == "#!/usr/bin/env python"
APP_MODELS_TEMPLATE == "from django.db import models"
APP_SERIALIZERS_TEMPLATE == "from rest_framework import serializers"
APP_VIEWS_TEMPLATE == "from rest_framework import viewsets"
APP_URLS_TEMPLATE == "from django.urls import path, include"
APP_ADMIN_TEMPLATE == "from django.contrib import admin"
APP_TESTS_TEMPLATE == "from django.test import TestCase"
REQUIREMENTS_TEMPLATE == "Django>=4.2.0,<5.0.0"
DJANGO_ENV_TEMPLATE == "DEBUG=True"
DJANGO_GITIGNORE_TEMPLATE == "# Python (django)"
DJANGO_README_TEMPLATE ==
    << "# ", "{", "project_name", "}",
       "\n\nA Django REST Framework project\n\n## Project Structure\n\n",
       "{", "project_name", "}",
       "/\n|-- config/\n|-- usecase1/\n|-- usecase2/\n|-- manage.py\n\n## Setup\n" >>

\* fastApi_templates.py
COMMON_FILES ==
    << <<"base_models.py", "from sqlalchemy.ext.declarative import declarative_base">>,
       <<"config.py", "from pydantic_settings import BaseSettings">>,
       <<"database.py", "from sqlalchemy import create_engine">>,
       <<"exceptions.py", "from fastapi import HTTPException">>,
       <<"router.py", "from fastapi import APIRouter # main_router">>,
       <<"utils.py", "from datetime import datetime, timezone">> >>
USECASE_FILES ==
    << <<"constants.py", "# Pagination">>,
       <<"dependencies.py", "from fastapi import Depends, Request">>,
       <<"models.py", "from sqlalchemy import Column, String, Text, Boolean">>,
       <<"schemas.py", "from pydantic import BaseModel, Field">>,
       <<"services.py", "from sqlalchemy.orm import Session">>,
       <<"routers.py", "from fastapi import APIRouter, Depends, Query">> >>
TEST_FILES ==
    << <<"conftest.py", "import pytest # conftest">> >>
MAIN_APP_TEMPLATE == "from fastapi import FastAPI"
SETUP_TEMPLATE ==
    << "from setuptools import setup, find_packages\n\nsetup(\n    name=\"",
       "{", "project_name", "}",
       "\",\n    version=\"0.1.0\",\n    packages=find_packages(where=\"src\"),\n    package_dir=",
       "{", "\"\"", ":", " \"src\"", "}",
       ",\n    install_requires=[],\n    extras_require=",
       "{", "\n        \"dev\"", ":", " []\n    ", "}",
       ",\n    python_requires=\">=3.9\",\n)\n" >>
FASTAPI_ENV_TEMPLATE == "# Database"
FASTAPI_GITIGNORE_TEMPLATE == "# Python (fastapi)"
FASTAPI_README_TEMPLATE ==
    << "# ", "{", "project_name", "}",
       "\n\nA FastAPI project\n\n## Project Structure\n\n",
       "{", "project_name", "}",
       "/\n|-- src/\n|-- tests/\n|-- main.py\n|-- setup.py\n\n## Setup\n" >>
\* the f-string of create_project_structure (create_fast_api_project.py)
TEST_ROUTES_TEMPLATE ==
    << "import pytest\n\ndef test_", "{", "usecase", "}",
       "_create_item(client):\n    response = client.post(\n        \"/",
       "{", "usecase", "}",
       "/items/\",\n        json=", "{", "{",
       "\"name\": \"test item\", \"description\": \"test description\"",
       "}", "}", "\n    )\n" >>

\* ------------------------------------------------- the materialization plan
\* The filesystem calls of create_project_structure up to (not including)
\* "git init", in program order.  Every entry has the same fields; the ones
\* a call does not use hold a neutral value.
Mode755 == "rwxr-xr-x"
NewFileMode == "rw-r--r--"

MkdirOp(p, parents) ==
    [op |-> "mkdir", path |-> p, parents |-> parents,
     content |-> Lit(""), kw |-> "", mode |-> "", say |-> ""]
TouchOp(p) ==
    [op |-> "touch", path |-> p, parents |-> FALSE,
     content |-> Lit(""), kw |-> "", mode |-> "", say |-> ""]
WriteOp(p, text) ==
    [op |-> "write", path |-> p, parents |-> TRUE,
     content |-> Lit(text), kw |-> "", mode |-> "", say |-> ""]
RenderOp(p, tokens, kw) ==
    [op |-> "write", path |-> p, parents |-> TRUE,
     content |-> Fmt(tokens), kw |-> kw, mode |-> "", say |-> ""]
ChmodOp(p, mode) ==
    [op |-> "chmod", path |-> p, parents |-> FALSE,
     content |-> Lit(""), kw |-> "", mode |-> mode, say |-> ""]
\* print(msg) right before the first call of a group of calls
Saying(msg, ops) == <<[ops[1] EXCEPT !.say = msg]>> \o Tail(ops)

\* create_django_app(project_path, app_name)
create_django_app(project_path, app_name) ==
    LET app_path == Join(project_path, app_name) IN
    << MkdirOp(app_path, FALSE),
       WriteOp(Join(app_path, "__init__.py"), ""),
       WriteOp(Join(app_path, "models.py"), APP_MODELS_TEMPLATE),
       WriteOp(Join(app_path, "serializers.py"), APP_SERIALIZERS_TEMPLATE),
       WriteOp(Join(app_path, "views.py"), APP_VIEWS_TEMPLATE),
       WriteOp(Join(app_path, "urls.py"), APP_URLS_TEMPLATE),
       WriteOp(Join(app_path, "admin.py"), APP_ADMIN_TEMPLATE),
       WriteOp(Join(app_path, "tests.py"), APP_TESTS_TEMPLATE),
       MkdirOp(Join(app_path, "migrations"), FALSE),
       WriteOp(Join(Join(app_path, "migrations"), "__init__.py"), "") >>

\* a slip in the Django script: requirements.txt is not among the files
\* written before the venv is created
DjangoPlanWithoutManifest(base_path, project_name) ==
    LET config_path == Join(base_path, "config") IN
    << MkdirOp(config_path, TRUE),
       WriteOp(Join(config_path, "__init__.py"), ""),
       WriteOp(Join(config_path, "settings.py"), SETTINGS_TEMPLATE),
       WriteOp(Join(config_path, "urls.py"), URLS_TEMPLATE),
       WriteOp(Join(config_path, "wsgi.py"), WSGI_TEMPLATE),
       WriteOp(Join(config_path, "asgi.py"), ASGI_TEMPLATE),
       WriteOp(Join(base_path, "manage.py"), MANAGE_TEMPLATE),
       ChmodOp(Join(base_path, "manage.py"), Mode755) >>
    \o create_django_app(base_path, "usecase1")
    \o create_django_app(base_path, "usecase2")
    \o << WriteOp(Join(base_path, ".env"), DJANGO_ENV_TEMPLATE),
          WriteOp(Join(base_path, ".gitignore"), DJANGO_GITIGNORE_TEMPLATE),
          RenderOp(Join(base_path, "README.md"), DJANGO_README_TEMPLATE, project_name) >>

DjangoPlan(base_path, project_name) ==
    LET config_path == Join(base_path, "config") IN
    << MkdirOp(config_path, TRUE),
       WriteOp(Join(config_path, "__init__.py"), ""),
       WriteOp(Join(config_path, "settings.py"), SETTINGS_TEMPLATE),
       WriteOp(Join(config_path, "urls.py"), URLS_TEMPLATE),
       WriteOp(Join(config_path, "wsgi.py"), WSGI_TEMPLATE),
       WriteOp(Join(config_path, "asgi.py"), ASGI_TEMPLATE),
       WriteOp(Join(base_path, "manage.py"), MANAGE_TEMPLATE),
       ChmodOp(Join(base_path, "manage.py"), Mode755) >>
    \o create_django_app(base_path, "usecase1")
    \o create_django_app(base_path, "usecase2")
    \o << WriteOp(Join(base_path, "requirements.txt"), REQUIREMENTS_TEMPLATE),
          WriteOp(Join(base_path, ".env"), DJANGO_ENV_TEMPLATE),
          WriteOp(Join(base_path, ".gitignore"), DJANGO_GITIGNORE_TEMPLATE),
          RenderOp(Join(base_path, "README.md"), DJANGO_README_TEMPLATE, project_name) >>

\* the directories list of the FastAPI generator
directories(base_path) ==
    << base_path \o <<"src", "common">>,
       base_path \o <<"src", "usecase1">>,
       base_path \o <<"src", "usecase2">>,
       base_path \o <<"tests", "test_usecase1">>,
       base_path \o <<"tests", "test_usecase2">> >>

usecases == <<"usecase1", "usecase2">>

\* a slip in the directory loop: the directories are made but the markers
\* are not touched
RECURSIVE DirOpsWithoutMarkers(_, _)
DirOpsWithoutMarkers(ds, i) ==
    IF i > Len(ds) THEN <<>>
    ELSE << MkdirOp(ds[i], TRUE) >> \o DirOpsWithoutMarkers(ds, i + 1)

RECURSIVE DirOps(_, _)
DirOps(ds, i) ==
    IF i > Len(ds) THEN <<>>
    ELSE << MkdirOp(ds[i], TRUE), TouchOp(Join(ds[i], "__init__.py")) >>
         \o DirOps(ds, i + 1)

\* for filename, content in <dict>.items(): create_file_with_content(dir / filename, content)
RECURSIVE DictOps(_, _, _)
DictOps(dir, items, i) ==
    IF i > Len(items) THEN <<>>
    ELSE << WriteOp(Join(dir, items[i][1]), items[i][2]) >>
         \o DictOps(dir, items, i + 1)

\* a slip in the loop over the use cases: the directory does not follow the
\* loop variable, so both passes write into src/usecase1
RECURSIVE UsecaseOpsSameDir(_, _)
UsecaseOpsSameDir(base_path, i) ==
    IF i > Len(usecases) THEN <<>>
    ELSE DictOps(base_path \o <<"src", usecases[1]>>, USECASE_FILES, 1)
         \o UsecaseOpsSameDir(base_path, i + 1)

RECURSIVE UsecaseOps(_, _)
UsecaseOps(base_path, i) ==
    IF i > Len(usecases) THEN <<>>
    ELSE DictOps(base_path \o <<"src", usecases[i]>>, USECASE_FILES, 1)
         \o UsecaseOps(base_path, i + 1)

RECURSIVE TestRouteOps(_, _)
TestRouteOps(base_path, i) ==
    IF i > Len(usecases) THEN <<>>
    ELSE << RenderOp(base_path \o <<"tests", "test_" \o usecases[i], "test_routes.py">>,
                     TEST_ROUTES_TEMPLATE, usecases[i]) >>
         \o TestRouteOps(base_path, i + 1)

FastApiPlan(base_path, project_name) ==
    Saying("Creating project structure...", DirOps(directories(base_path), 1))
    \o Saying("Creating common module files...",
               DictOps(base_path \o <<"src", "common">>, COMMON_FILES, 1))
    \o Saying("Creating usecase files...", UsecaseOps(base_path, 1))
    \o Saying("Creating test files...",
               DictOps(Join(base_path, "tests"), TEST_FILES, 1))
    \o TestRouteOps(base_path, 1)
    \o Saying("Creating main application files...",
          << WriteOp(Join(base_path, "main.py"), MAIN_APP_TEMPLATE),
             RenderOp(Join(base_path, "setup.py"), SETUP_TEMPLATE, project_name),
             WriteOp(Join(base_path, ".env"), FASTAPI_ENV_TEMPLATE),
             WriteOp(Join(base_path, ".gitignore"), FASTAPI_GITIGNORE_TEMPLATE),
             RenderOp(Join(base_path, "README.md"), FASTAPI_README_TEMPLATE, project_name) >>)

Plan(g, base_path, project_name) ==
    IF g = "django" THEN DjangoPlan(base_path, project_name)
    ELSE FastApiPlan(base_path, project_name)

\* the keyword argument a rendered template is formatted with
KwName(op) ==
    IF op.content.tokens = TEST_ROUTES_TEMPLATE THEN "usecase" ELSE "project_name"

\* the content argument of create_file_with_content, evaluated before the call
Render(op) ==
    IF op.content.fmt
    THEN Format(op.content.tokens, (KwName(op) :> op.kw))
    ELSE [err |-> "", msg |-> "", text |-> op.content.tokens[1]]


\* ------------------------------------------------------ filesystem semantics
\* The filesystem is (fs, ds): fs maps the path of every regular file to its
\* content and permission string, ds is the set of directories.
NoError == ""

AncestorIsFile(fs, p) ==
    \E k \in 1..(Len(p) - 1) : SubSeq(p, 1, k) \in DOMAIN fs

Put(fs, p, rec) ==
    [q \in (DOMAIN fs) \cup {p} |-> IF q = p THEN rec ELSE fs[q]]

\* Path.mkdir(parents=parents, exist_ok=exist_ok)
RECURSIVE Mkdir(_, _, _, _, _)
Mkdir(fs, ds, p, parents, exist_ok) ==
    IF p \in ds \/ p \in DOMAIN fs
    THEN IF exist_ok /\ p \in ds
         THEN [err |-> NoError, dirs |-> ds]
         ELSE [err |-> "FileExistsError", dirs |-> ds]
    ELSE IF AncestorIsFile(fs, p)
    THEN [err |-> "NotADirectoryError", dirs |-> ds]
    ELSE IF Parent(p) \notin ds
    THEN IF ~parents
         THEN [err |-> "FileNotFoundError", dirs |-> ds]
         ELSE LET r == Mkdir(fs, ds, Parent(p), TRUE, TRUE)
              IN  IF r.err # NoError THEN r
                  ELSE Mkdir(fs, r.dirs, p, FALSE, exist_ok)
    ELSE [err |-> NoError, dirs |-> ds \cup {p}]

\* the permission string of a file created by open(..., 'w') or touch()
CreatedMode(host) == IF host = "Windows" THEN "rw-rw-rw-" ELSE NewFileMode

\* with open(file_path, 'w') as f: f.write(content)
OpenWrite(fs, ds, p, content, host) ==
    IF p \in ds THEN [err |-> "IsADirectoryError", files |-> fs]
    ELSE IF AncestorIsFile(fs, p) THEN [err |-> "NotADirectoryError", files |-> fs]
    ELSE IF Parent(p) \notin ds THEN [err |-> "FileNotFoundError", files |-> fs]
    ELSE [err |-> NoError,
          files |-> Put(fs, p, [content |-> content,
                                mode |-> IF p \in DOMAIN fs THEN fs[p].mode
                                         ELSE CreatedMode(host)])]

\* Path.touch(): an existing file or directory only gets a new timestamp
Touch(fs, ds, p, host) ==
    IF p \in DOMAIN fs \/ p \in ds THEN [err |-> NoError, files |-> fs]
    ELSE IF AncestorIsFile(fs, p) THEN [err |-> "NotADirectoryError", files |-> fs]
    ELSE IF Parent(p) \notin ds THEN [err |-> "FileNotFoundError", files |-> fs]
    ELSE [err |-> NoError,
          files |-> Put(fs, p, [content |-> "", mode |-> CreatedMode(host)])]

\* a slip in the permission change: the call has no effect
ChmodWithoutEffect(fs, ds, p, mode, host) == [err |-> NoError, files |-> fs]

\* os.chmod(path, mode): Windows keeps only the read-only flag, which a mode
\* with the owner-write bit clears
Chmod(fs, ds, p, mode, host) ==
    IF p \notin DOMAIN fs
    THEN [err |-> IF AncestorIsFile(fs, p) THEN "NotADirectoryError"
                  ELSE IF p \in ds THEN NoError ELSE "FileNotFoundError",
          files |-> fs]
    ELSE [err |-> NoError,
          files |-> [fs EXCEPT ![p].mode =
                        IF host = "Windows" THEN "rw-rw-rw-" ELSE mode]]


\* a slip in create_and_activate_venv: the Windows branch is missing
VenvPathsPosixOnly(project_path, host) ==
    LET venv_path == Join(project_path, "venv") IN
    [activate_script |-> venv_path \o <<"bin", "activate">>,
     python_path |-> venv_path \o <<"bin", "python">>,
     pip_path |-> venv_path \o <<"bin", "pip">>]

\* -------------------------------------------------- virtual environment, shell
\* the three paths create_and_activate_venv computes and returns
VenvPaths(project_path, host) ==
    LET venv_path == Join(project_path, "venv") IN
    IF host = "Windows"
    THEN [activate_script |-> venv_path \o <<"Scripts", "activate.bat">>,
          python_path |-> venv_path \o <<"Scripts", "python.exe">>,
          pip_path |-> venv_path \o <<"Scripts", "pip.exe">>]
    ELSE [activate_script |-> venv_path \o <<"bin", "activate">>,
          python_path |-> venv_path \o <<"bin", "python">>,
          pip_path |-> venv_path \o <<"bin", "pip">>]

\* what venv.create(venv_path, with_pip=True) puts on disk
VenvBinDir(venv_path, host) ==
    Join(venv_path, IF host = "Windows" THEN "Scripts" ELSE "bin")
VenvBinaries(venv_path, host) ==
    IF host = "Windows"
    THEN {Join(VenvBinDir(venv_path, host), n) :
             n \in {"activate.bat", "python.exe", "pip.exe"}}
    ELSE {Join(VenvBinDir(venv_path, host), n) :
             n \in {"activate", "python", "pip"}}

VenvCreate(fs, ds, venv_path, host) ==
    LET r == Mkdir(fs, ds, VenvBinDir(venv_path, host), TRUE, TRUE) IN
    IF r.err # NoError THEN [err |-> r.err, files |-> fs, dirs |-> ds]
    ELSE [err |-> NoError,
          files |-> [q \in (DOMAIN fs) \cup VenvBinaries(venv_path, host) |->
                        IF q \in VenvBinaries(venv_path, host)
                        THEN [content |-> "venv binary", mode |-> Mode755]
                        ELSE fs[q]],
          dirs |-> r.dirs]

\* The exit statuses "sh -c <command>" started in cwd can end with: a program
\* named without a directory is looked up on PATH, one named with a path is
\* resolved against cwd and is "not found" (127) unless it is a file.
ExitStatuses(fs, cwd, exe) ==
    IF Len(exe) = 1 THEN {0, 1}
    ELSE IF Resolve(cwd, exe) \in DOMAIN fs THEN {0, 1}
    ELSE {127}

Stderr(rc) == IF rc = 127 THEN "not found" ELSE "command failed"

Quoted(p, host) == "\"" \o PathStr(p, host) \o "\""

\* ------------------------------------------------------------------ messages
\* A printed text is the sequence of its pieces (their concatenation is what
\* appears on standard output); the first piece tells the kind of message.
Script(g) ==
    IF g = "django" THEN "create_django_project.py" ELSE "create_project.py"
Usage(g) == <<"Usage: python ", Script(g), " project_name">>
Creating(g, name) ==
    <<IF g = "django" THEN "Creating new Django project: " ELSE "Creating new project: ",
      name>>
Progress(text) == <<text>>
CommandError(text) == <<"Error running command: ", text>>
StderrLine(err) == <<"Error: ", err>>
ErrorCreating(msg) == <<"Error creating project: ", msg>>
SuccessMessage(g, name, activate_cmd) ==
    << "\nProject ", name, " created successfully!\n\n",
       "To activate the virtual environment:\n", activate_cmd, "\n\n",
       IF g = "django" THEN "To run the development server:\ncd "
       ELSE "To run the application:\ncd ",
       name, "\n",
       IF g = "django" THEN "python manage.py runserver\n" ELSE "python main.py\n" >>

\* ------------------------------------------------------------------- state
VARIABLES
    gen,      \* which generator script runs: "django" or "fastapi"
    host,     \* platform.system()
    argv,     \* sys.argv, every element a path given by its components
    files,    \* regular files: path -> [content, mode]
    dirs,     \* directories
    files0,   \* the regular files before the run (never changes)
    dirs0,    \* the directories before the run (never changes)
    pc,       \* position of the process
    ip,       \* index of the next call of the materialization plan
    exc,      \* the exception being propagated, type "" if none
    stdout,   \* the texts printed so far
    status,   \* exit status of the process, -1 while it runs
    cmds,     \* the external commands run so far, with their exit statuses
    venv,     \* the paths create_and_activate_venv returned, empty before
    fault     \* the environment call that raised: "none", "fs" or "venv"

vars == <<gen, host, argv, files, dirs, files0, dirs0, pc, ip, exc, stdout,
          status, cmds, venv, fault>>

Generators == {"django", "fastapi"}
Hosts == {"Linux", "Windows"}
ProjectNames == {<<"demo">>, <<Root, "srv", "demo">>}

ArgLists == UNION {[1..n -> ProjectNames] : n \in 0..MaxArgs}

\* Path(project_name) and the text of sys.argv[1]
base_path == argv[2]
NameText == PathStr(argv[2], host)

ThePlan == Plan(gen, base_path, NameText)

NoException == [type |-> "", msg |-> "", code |-> 0]
SystemExit(code) == [type |-> "SystemExit", msg |-> "", code |-> code]
Error(type, msg) == [type |-> type, msg |-> msg, code |-> 0]

NoVenv == [activate_script |-> <<>>, python_path |-> <<>>, pip_path |-> <<>>]

\* ------------------------------------------------------------ initial states
PlanFiles(plan) ==
    {plan[i].path : i \in {k \in 1..Len(plan) : plan[k].op \in {"write", "touch"}}}
Ancestors(p) == {SubSeq(p, 1, k) : k \in 0..(Len(p) - 1)}
PlanDirs(plan) == UNION {Ancestors(q) : q \in PlanFiles(plan)}

\* pre-existing files that may be chosen one by one, relative to the target
PriorCandidates(g) ==
    IF g = "django"
    THEN { <<"config", "__init__.py">>, <<"config", "settings.py">>,
           <<"manage.py">>, <<"usecase1", "migrations", "__init__.py">>,
           <<"README.md">>, <<"notes.txt">>, <<"config", "local.py">>,
           <<"usecase2">> }
    ELSE { <<"src", "common", "__init__.py">>, <<"src", "common", "config.py">>,
           <<"main.py">>, <<"setup.py">>,
           <<"tests", "test_usecase1", "test_routes.py">>,
           <<"notes.txt">>, <<"src", "extra.py">>, <<"tests">> }

PriorContent == "left over from before"
PriorMode == "rw-------"

Consistent(fileSet, dirSet) ==
    /\ fileSet \cap dirSet = {}
    /\ \A p \in fileSet : Ancestors(p) \cap fileSet = {}

Init ==
    /\ gen \in Generators
    /\ host \in Hosts
    /\ \E a \in ArgLists : argv = <<<<Script(gen)>>>> \o a
    /\ \E allDirs \in BOOLEAN :
       LET target == IF Len(argv) >= 2 THEN argv[2] ELSE <<"demo">>
           plan == Plan(gen, target, PathStr(target, host))
           choices ==
               {{target \o c : c \in S} :
                   S \in {T \in SUBSET PriorCandidates(gen) : Cardinality(T) <= MaxPrior}}
               \cup {PlanFiles(plan)}
       IN \E prior \in choices :
            LET ds == {<<>>, <<Root>>}
                      \cup UNION {Ancestors(q) : q \in prior}
                      \cup (IF allDirs THEN PlanDirs(plan) ELSE {})
            IN /\ Consistent(prior, ds)
               /\ files = [q \in prior |-> [content |-> PriorContent, mode |-> PriorMode]]
               /\ dirs = ds
    /\ files0 = files
    /\ dirs0 = dirs
    /\ pc = "main"
    /\ ip = 0
    /\ exc = NoException
    /\ stdout = <<>>
    /\ status = -1
    /\ cmds = <<>>
    /\ venv = NoVenv
    /\ fault = "none"

\* --------------------------------------------------- one call of the plan
\* a slip in the directory creation: exist_ok left at its default False
MakeDirWithoutExistOk(fs, ds, p, parents) == Mkdir(fs, ds, p, parents, FALSE)

\* the call every directory creation of both scripts makes: exist_ok=True
MakeDir(fs, ds, p, parents) == Mkdir(fs, ds, p, parents, TRUE)

\* create_file_with_content(file_path, content); outcome is what the
\* environment lets happen: "ok", or a failure of one of its three calls
create_file_with_content(fs, ds, file_path, content, h, outcome) ==
    LET m == IF outcome = "mkdir fails"
             THEN [err |-> "PermissionError", dirs |-> ds]
             ELSE MakeDir(fs, ds, Parent(file_path), TRUE)
        w == IF outcome = "open fails"
             THEN [err |-> "PermissionError", files |-> fs]
             ELSE OpenWrite(fs, m.dirs, file_path,
                            IF outcome = "write fails" THEN "" ELSE content, h)
    IN  IF m.err # NoError THEN [err |-> m.err, files |-> fs, dirs |-> ds]
        ELSE IF w.err # NoError THEN [err |-> w.err, files |-> fs, dirs |-> m.dirs]
        ELSE [err |-> IF outcome = "write fails" THEN "OSError" ELSE NoError,
              files |-> w.files, dirs |-> m.dirs]

\* the ways the environment can make a call of the plan end
Outcomes(op) ==
    IF op.op = "write" THEN {"ok", "mkdir fails", "open fails", "write fails"}
    ELSE {"ok", "call fails"}

\* str(e) of the errors the filesystem calls raise
OsMessage(type, p, h) == type \o ": '" \o PathStr(p, h) \o "'"

\* The effect of one call of the plan on the filesystem (fs, ds).  kind says
\* what raised: "" nothing, "render" the evaluation of the content argument,
\* "fs" a filesystem call.
ApplyCall(fs, ds, op, h, outcome) ==
    LET rendered == Render(op)
        r == IF outcome = "call fails"
             THEN [err |-> "PermissionError", files |-> fs, dirs |-> ds]
             ELSE IF op.op = "mkdir"
             THEN LET m == MakeDir(fs, ds, op.path, op.parents)
                  IN  [err |-> m.err, files |-> fs, dirs |-> m.dirs]
             ELSE IF op.op = "touch"
             THEN LET t == Touch(fs, ds, op.path, h)
                  IN  [err |-> t.err, files |-> t.files, dirs |-> ds]
             ELSE IF op.op = "chmod"
             THEN LET c == Chmod(fs, ds, op.path, op.mode, h)
                  IN  [err |-> c.err, files |-> c.files, dirs |-> ds]
             ELSE create_file_with_content(fs, ds, op.path, rendered.text, h, outcome)
    IN  IF op.op = "write" /\ rendered.err # NoError
        THEN [kind |-> "render", err |-> rendered.err, msg |-> rendered.msg,
              files |-> fs, dirs |-> ds]
        ELSE [kind |-> IF r.err = NoError THEN "" ELSE "fs",
              err |-> r.err,
              msg |-> IF r.err = NoError THEN "" ELSE OsMessage(r.err, op.path, h),
              files |-> r.files, dirs |-> r.dirs]

\* the filesystem a run of the plan from call i on leaves when the
\* environment lets every call through
RECURSIVE RunPlan(_, _, _, _, _)
RunPlan(plan, i, fs, ds, h) ==
    IF i > Len(plan) THEN [files |-> fs, dirs |-> ds, completed |-> TRUE]
    ELSE LET r == ApplyCall(fs, ds, plan[i], h, "ok")
         IN  IF r.err # NoError
             THEN [files |-> r.files, dirs |-> r.dirs, completed |-> FALSE]
             ELSE RunPlan(plan, i + 1, r.files, r.dirs, h)

\* ------------------------------------------------------------------ actions
Say(out, msg) == IF msg = "" THEN out ELSE Append(out, Progress(msg))

\* a slip in the handler: "except OSError" instead of "except Exception"
CatchesOsErrorOnly(type) ==
    type \in {"OSError", "PermissionError", "FileExistsError", "FileNotFoundError",
              "NotADirectoryError", "IsADirectoryError"}

\* which exceptions "except Exception" catches
Catches(type) == type \notin {"", "SystemExit", "KeyboardInterrupt", "GeneratorExit"}

\* a slip in the argument check: only a missing argument is rejected
TooFewArgsOnly == Len(argv) < 2

\* the argument check of main()
WrongArgCount == Len(argv) # 2

\* main(): the argument check and the first message
ValidateArgs ==
    /\ pc = "main"
    /\ IF WrongArgCount
       THEN /\ stdout' = Append(stdout, Usage(gen))
            /\ exc' = SystemExit(1)
            /\ pc' = "exiting"
            /\ ip' = ip
       ELSE /\ stdout' = Append(stdout, Creating(gen, NameText))
            /\ exc' = exc
            /\ pc' = "materialize"
            /\ ip' = 1
    /\ UNCHANGED <<gen, host, argv, files, dirs, files0, dirs0, status, cmds,
                   venv, fault>>

\* a slip in the order of the steps: the venv is created right after the files
AfterPlanSkipsGit == "create_venv"

\* where create_project_structure continues after the last call of the plan
AfterPlan == "git_init"

\* One call of the plan: r is what ApplyCall found.  An error raised by the
\* call propagates to the handler of main().
PlanCall(op, r) ==
    /\ stdout' = Say(stdout, op.say)
    /\ files' = r.files
    /\ dirs' = r.dirs
    /\ fault' = IF r.kind = "fs" THEN "fs" ELSE fault
    /\ IF r.err = NoError
       THEN /\ ip' = ip + 1
            /\ pc' = IF ip = Len(ThePlan) THEN AfterPlan ELSE "materialize"
            /\ exc' = exc
       ELSE /\ ip' = ip
            /\ pc' = "raised"
            /\ exc' = Error(r.err, r.msg)
    /\ UNCHANGED <<gen, host, argv, files0, dirs0, status, cmds, venv>>

\* <dir>.mkdir(...)
MkdirStep ==
    /\ pc = "materialize"
    /\ ThePlan[ip].op = "mkdir"
    /\ \E outcome \in Outcomes(ThePlan[ip]) :
         PlanCall(ThePlan[ip], ApplyCall(files, dirs, ThePlan[ip], host, outcome))

\* (directory / "__init__.py").touch()
TouchStep ==
    /\ pc = "materialize"
    /\ ThePlan[ip].op = "touch"
    /\ \E outcome \in Outcomes(ThePlan[ip]) :
         PlanCall(ThePlan[ip], ApplyCall(files, dirs, ThePlan[ip], host, outcome))

\* create_file_with_content(path, content), the evaluation of its content
\* argument included
WriteStep ==
    /\ pc = "materialize"
    /\ ThePlan[ip].op = "write"
    /\ \E outcome \in Outcomes(ThePlan[ip]) :
         PlanCall(ThePlan[ip], ApplyCall(files, dirs, ThePlan[ip], host, outcome))

\* os.chmod(base_path / "manage.py", 0o755)
ChmodStep ==
    /\ pc = "materialize"
    /\ ThePlan[ip].op = "chmod"
    /\ \E outcome \in Outcomes(ThePlan[ip]) :
         PlanCall(ThePlan[ip], ApplyCall(files, dirs, ThePlan[ip], host, outcome))

\* a slip in run_command: the error is printed but sys.exit(1) is missing
run_command_without_exit(out, text, exe, rc, next) ==
    /\ cmds' = Append(cmds, [text |-> text, cwd |-> base_path, exe |-> exe, rc |-> rc])
    /\ stdout' = IF rc = 0 THEN out
                 ELSE out \o <<CommandError(text), StderrLine(Stderr(rc))>>
    /\ exc' = exc
    /\ pc' = next

\* run_command(command, cwd=base_path) ending with exit status rc; out is
\* stdout with the caller's progress message, next the caller's next position
run_command(out, text, exe, rc, next) ==
    /\ cmds' = Append(cmds, [text |-> text, cwd |-> base_path, exe |-> exe, rc |-> rc])
    /\ IF rc = 0
       THEN /\ stdout' = out
            /\ exc' = exc
            /\ pc' = next
       ELSE /\ stdout' = out \o <<CommandError(text), StderrLine(Stderr(rc))>>
            /\ exc' = SystemExit(1)
            /\ pc' = "raised"

\* "git init" in the project directory
GitInit ==
    /\ pc = "git_init"
    /\ \E rc \in ExitStatuses(files, base_path, <<"git">>) :
         /\ run_command(Say(stdout, "Initializing git repository..."),
                        "git init", <<"git">>, rc, "create_venv")
         /\ dirs' = IF rc = 0 THEN dirs \cup {Join(base_path, ".git")} ELSE dirs
    /\ UNCHANGED <<gen, host, argv, files, files0, dirs0, ip, status, venv, fault>>

\* create_and_activate_venv(base_path)
create_and_activate_venv ==
    /\ pc = "create_venv"
    /\ \E injected \in BOOLEAN :
         LET r == IF injected
                  THEN [err |-> "CalledProcessError", files |-> files, dirs |-> dirs]
                  ELSE VenvCreate(files, dirs, Join(base_path, "venv"), host)
         IN /\ stdout' = stdout \o <<Progress("Setting up virtual environment..."),
                                     Progress("Creating virtual environment...")>>
            /\ files' = r.files
            /\ dirs' = r.dirs
            /\ IF r.err = NoError
               THEN /\ venv' = VenvPaths(base_path, host)
                    /\ pc' = "upgrade_pip"
                    /\ exc' = exc
                    /\ fault' = fault
               ELSE /\ venv' = venv
                    /\ pc' = "raised"
                    /\ exc' = Error(r.err, OsMessage(r.err, Join(base_path, "venv"), host))
                    /\ fault' = "venv"
    /\ UNCHANGED <<gen, host, argv, files0, dirs0, ip, status, cmds>>

\* "<pip>" install --upgrade pip
UpgradeInstaller ==
    /\ pc = "upgrade_pip"
    /\ \E rc \in ExitStatuses(files, base_path, venv.pip_path) :
         run_command(Say(stdout, "Installing dependencies..."),
                     Quoted(venv.pip_path, host) \o " install --upgrade pip",
                     venv.pip_path, rc, "install")
    /\ UNCHANGED <<gen, host, argv, files, dirs, files0, dirs0, ip, status, venv,
                   fault>>

\* a slip in the Django script: it returns after the second pip command as
\* the FastAPI script does, so manage.py migrate is never run
InstallDependenciesThenReturn ==
    /\ pc = "install"
    /\ \E rc \in ExitStatuses(files, base_path, venv.pip_path) :
         run_command(stdout,
                     Quoted(venv.pip_path, host)
                        \o (IF gen = "django" THEN " install -r requirements.txt"
                            ELSE " install -e ."),
                     venv.pip_path, rc, "report")
    /\ UNCHANGED <<gen, host, argv, files, dirs, files0, dirs0, ip, status, venv,
                   fault>>

\* the second pip command; create_project_structure of the FastAPI script
\* returns after it
InstallDependencies ==
    /\ pc = "install"
    /\ \E rc \in ExitStatuses(files, base_path, venv.pip_path) :
         run_command(stdout,
                     Quoted(venv.pip_path, host)
                        \o (IF gen = "django" THEN " install -r requirements.txt"
                            ELSE " install -e ."),
                     venv.pip_path, rc,
                     IF gen = "django" THEN "migrate" ELSE "report")
    /\ UNCHANGED <<gen, host, argv, files, dirs, files0, dirs0, ip, status, venv,
                   fault>>

\* "<python>" manage.py migrate (Django script only)
BootstrapFramework ==
    /\ pc = "migrate"
    /\ \E rc \in ExitStatuses(files, base_path, venv.python_path) :
         run_command(Say(stdout, "Initializing Django project..."),
                     Quoted(venv.python_path, host) \o " manage.py migrate",
                     venv.python_path, rc, "report")
    /\ UNCHANGED <<gen, host, argv, files, dirs, files0, dirs0, ip, status, venv,
                   fault>>

\* main(): the activation command of the success message
ActivateCmd ==
    IF host = "Windows" THEN PathStr(venv.activate_script, host)
    ELSE "source " \o PathStr(venv.activate_script, host)

\* main(): the code after create_project_structure returned
ReportSuccess ==
    /\ pc = "report"
    /\ stdout' = Append(stdout, SuccessMessage(gen, NameText, ActivateCmd))
    /\ pc' = "returned"
    /\ UNCHANGED <<gen, host, argv, files, dirs, files0, dirs0, ip, exc, status,
                   cmds, venv, fault>>

\* a slip in the handler: the error is printed but sys.exit(1) is missing, so
\* main() returns
ExceptHandlerWithoutExit ==
    /\ pc = "raised"
    /\ IF Catches(exc.type)
       THEN /\ stdout' = Append(stdout, ErrorCreating(exc.msg))
            /\ exc' = NoException
            /\ pc' = "returned"
       ELSE /\ UNCHANGED <<stdout, exc>>
            /\ pc' = "exiting"
    /\ UNCHANGED <<gen, host, argv, files, dirs, files0, dirs0, ip, status, cmds,
                   venv, fault>>

\* a slip in the handler: it cleans up before exiting, removing what the run
\* left under the project directory
ExceptHandlerWithRollback ==
    /\ pc = "raised"
    /\ IF Catches(exc.type)
       THEN /\ stdout' = Append(stdout, ErrorCreating(exc.msg))
            /\ exc' = SystemExit(1)
            /\ files' = [p \in {q \in DOMAIN files : ~IsUnder(q, base_path)} |-> files[p]]
            /\ dirs' = {d \in dirs : ~IsUnder(d, base_path)}
       ELSE UNCHANGED <<stdout, exc, files, dirs>>
    /\ pc' = "exiting"
    /\ UNCHANGED <<gen, host, argv, files0, dirs0, ip, status, cmds, venv, fault>>

\* main(): "except Exception as e" around create_project_structure and the
\* success report; any other exception passes through
ExceptHandler ==
    /\ pc = "raised"
    /\ IF Catches(exc.type)
       THEN /\ stdout' = Append(stdout, ErrorCreating(exc.msg))
            /\ exc' = SystemExit(1)
       ELSE UNCHANGED <<stdout, exc>>
    /\ pc' = "exiting"
    /\ UNCHANGED <<gen, host, argv, files, dirs, files0, dirs0, ip, status, cmds,
                   venv, fault>>

\* the interpreter ends the process: status 0 after main() returned, the
\* code of a SystemExit, 1 for any other uncaught exception
ProcessExit ==
    /\ pc \in {"exiting", "returned"}
    /\ status' = IF pc = "returned" THEN 0
                 ELSE IF exc.type = "SystemExit" THEN exc.code ELSE 1
    /\ pc' = "exited"
    /\ UNCHANGED <<gen, host, argv, files, dirs, files0, dirs0, ip, exc, stdout,
                   cmds, venv, fault>>

Next ==
    \/ ValidateArgs
    \/ MkdirStep
    \/ TouchStep
    \/ WriteStep
    \/ ChmodStep
    \/ GitInit
    \/ create_and_activate_venv
    \/ UpgradeInstaller
    \/ InstallDependencies
    \/ BootstrapFramework
    \/ ReportSuccess
    \/ ExceptHandler
    \/ ProcessExit

Spec == Init /\ [][Next]_vars

\* ------------------------------------------------------------------- claims
OneArg == Len(argv) = 2
Finished == pc = "exited"
Kind(line) == line[1]
Printed(kind) == \E i \in DOMAIN stdout : Kind(stdout[i]) = kind
SuccessPrinted ==
    OneArg /\ \E i \in DOMAIN stdout :
                 stdout[i] = SuccessMessage(gen, NameText, ActivateCmd)
AllCommandsZero == \A i \in DOMAIN cmds : cmds[i].rc = 0
CmdFailed == cmds # <<>> /\ cmds[Len(cmds)].rc # 0
PlanCompleted == OneArg /\ ip = Len(ThePlan) + 1
\* the number of external commands a complete run of the generator makes
CommandCount == IF gen = "django" THEN 4 ELSE 3

\* C1: with exactly one argument, no failing filesystem or venv call and
\* every command exiting with status zero, a finished run has printed the
\* success message last and exited with status 0.
C1_CleanRunSucceeds ==
    (Finished /\ OneArg /\ fault = "none" /\ AllCommandsZero)
        => (status = 0 /\ SuccessPrinted)

\* C2: the steps run in the order ValidateArgs, MaterializeTemplates, GitInit,
\* ProvisionEnvironment, UpgradeInstaller, InstallDependencies,
\* BootstrapFramework, ReportSuccess: every transition either stays inside
\* materialization (advancing to its next call), or moves from a step that
\* completed successfully to its immediate successor, or leaves a step for
\* the fatal exit; nothing moves backwards or runs twice.
StepOrder ==
    <<"main", "materialize", "git_init", "create_venv", "upgrade_pip",
      "install", "migrate", "report">>
Steps == {StepOrder[k] : k \in DOMAIN StepOrder}
Successor(a, b) ==
    \E k \in 1..(Len(StepOrder) - 1) : a = StepOrder[k] /\ b = StepOrder[k + 1]
CompletedSuccessfully ==
    /\ exc' = NoException
    /\ fault' = "none"
    /\ pc = "main" => OneArg
    /\ pc = "materialize" => ip' = Len(ThePlan) + 1
    /\ pc \in {"git_init", "upgrade_pip", "install", "migrate"} =>
          /\ Len(cmds') = Len(cmds) + 1
          /\ cmds'[Len(cmds')].rc = 0
    /\ pc = "create_venv" => venv' # NoVenv
C2_StrictOrder ==
    [][ \/ pc = "materialize" /\ pc' = "materialize" /\ ip' = ip + 1
        \/ Successor(pc, pc') /\ CompletedSuccessfully
        \/ pc \in Steps /\ pc' \in {"raised", "exiting"} /\ exc'.type # ""
        \/ pc = "report" /\ pc' = "returned" /\ Len(cmds) = CommandCount
        \/ pc = "raised" /\ pc' = "exiting"
        \/ pc \in {"exiting", "returned"} /\ pc' = "exited" ]_vars
C2_Witness == Finished /\ status = 0 /\ Len(cmds) = 4

\* C3: for a valid project name and a fresh target, materialization does
\* not abort, and when GitInit is about to start the files under the target
\* are exactly the generator's file set and README.md carries the name in
\* its title and in its structure diagram.
DjangoAppFiles(base, app) ==
    {base \o <<app, f>> :
        f \in {"__init__.py", "models.py", "serializers.py", "views.py",
               "urls.py", "admin.py", "tests.py"}}
    \cup {base \o <<app, "migrations", "__init__.py">>}
ExpectedFiles(g, base) ==
    IF g = "django"
    THEN {base \o <<"config", f>> :
             f \in {"__init__.py", "settings.py", "urls.py", "wsgi.py", "asgi.py"}}
         \cup {Join(base, "manage.py")}
         \cup DjangoAppFiles(base, "usecase1") \cup DjangoAppFiles(base, "usecase2")
         \cup {Join(base, f) : f \in {"requirements.txt", ".env", ".gitignore", "README.md"}}
    ELSE {base \o <<"src", "common", f>> :
             f \in {"__init__.py", "base_models.py", "config.py", "database.py",
                    "exceptions.py", "router.py", "utils.py"}}
         \cup {base \o <<"src", u, f>> :
                 u \in {"usecase1", "usecase2"},
                 f \in {"__init__.py", "constants.py", "dependencies.py", "models.py",
                        "schemas.py", "services.py", "routers.py"}}
         \cup {base \o <<"tests", "conftest.py">>}
         \cup {base \o <<"tests", t, f>> :
                 t \in {"test_usecase1", "test_usecase2"},
                 f \in {"__init__.py", "test_routes.py"}}
         \cup {Join(base, f) : f \in {"main.py", "setup.py", ".env", ".gitignore", "README.md"}}
ExpectedReadme(g, name) ==
    IF g = "django"
    THEN "# " \o name
         \o "\n\nA Django REST Framework project\n\n## Project Structure\n\n"
         \o name
         \o "/\n|-- config/\n|-- usecase1/\n|-- usecase2/\n|-- manage.py\n\n## Setup\n"
    ELSE "# " \o name
         \o "\n\nA FastAPI project\n\n## Project Structure\n\n"
         \o name
         \o "/\n|-- src/\n|-- tests/\n|-- main.py\n|-- setup.py\n\n## Setup\n"
FreshTarget == DOMAIN files0 = {}
FilesUnder(base) == {p \in DOMAIN files : IsUnder(p, base)}
MaterializationAborted == OneArg /\ pc \in {"raised", "exiting", "exited"} /\ ip <= Len(ThePlan)
C3_FullFileSet ==
    (OneArg /\ FreshTarget /\ fault = "none") =>
        /\ ~MaterializationAborted
        /\ pc = "git_init" =>
              /\ FilesUnder(base_path) = ExpectedFiles(gen, base_path)
              /\ files[Join(base_path, "README.md")].content = ExpectedReadme(gen, NameText)

\* C4: with zero or with two or more arguments the run prints only the usage
\* message and exits with status 1; no file or directory is created or
\* changed, no command is run and no virtual environment is created.
C4_UsageError ==
    ~OneArg =>
        /\ files = files0 /\ dirs = dirs0
        /\ cmds = <<>> /\ venv = NoVenv
        /\ pc # "main" => stdout = <<Usage(gen)>>
        /\ Finished => status = 1
C4_Witness == Finished /\ Len(argv) > 2 /\ DOMAIN files0 # {}

\* C5: when an external command ends with a non-zero status, the command
\* text and its error output are the last two texts printed, the process
\* exits with status 1, and nothing happens afterwards: no further command,
\* no venv creation, no file or directory change, no success message.
LastCmd == cmds[Len(cmds)]
C5_CommandFailureIsFatal ==
    /\ [](CmdFailed =>
            /\ pc \in {"raised", "exiting", "exited"}
            /\ Len(stdout) >= 2
            /\ stdout[Len(stdout) - 1] = CommandError(LastCmd.text)
            /\ stdout[Len(stdout)] = StderrLine(Stderr(LastCmd.rc))
            /\ \A i \in 1..(Len(cmds) - 1) : cmds[i].rc = 0
            /\ ~SuccessPrinted
            /\ Finished => status = 1)
    /\ [][CmdFailed => UNCHANGED <<files, dirs, cmds, venv, stdout>>]_vars
C5_Witness == Finished /\ CmdFailed /\ Len(cmds) = 3 /\ LastCmd.rc = 1

\* C6: an error raised by a filesystem call of materialization or by the
\* venv creation reaches the handler of main(), which prints "Error creating
\* project: <message>" as the last text, and the process exits with status 1;
\* no later step runs: no command, no venv, no success message.
C6_ErrorsReachHandler ==
    /\ [](fault # "none" =>
            /\ pc \in {"raised", "exiting", "exited"}
            /\ fault = "fs" => cmds = <<>>
            /\ fault = "venv" => Len(cmds) = 1 /\ AllCommandsZero
            /\ venv = NoVenv
            /\ ~SuccessPrinted
            /\ pc # "raised" => Kind(stdout[Len(stdout)]) = Kind(ErrorCreating(""))
            /\ Finished => status = 1)
    /\ [][(fault # "none" /\ pc = "raised") =>
            (stdout' = Append(stdout, ErrorCreating(exc.msg)) /\ pc' = "exiting")]_vars
    /\ [][(fault # "none" /\ pc # "raised") =>
            UNCHANGED <<files, dirs, cmds, venv, stdout>>]_vars
C6_Witness == Finished /\ fault = "venv"

\* C7: the success message is printed only when the whole plan and every
\* command completed, and then the exit status is 0; every other finished
\* run has printed a diagnostic (usage, command error or "Error creating
\* project") and has exit status 1.
DiagnosticPrinted ==
    \/ Printed(Kind(Usage(gen)))
    \/ Printed(Kind(CommandError("")))
    \/ Printed(Kind(ErrorCreating("")))
C7_NoPartialSuccess ==
    /\ SuccessPrinted =>
          /\ PlanCompleted
          /\ Len(cmds) = CommandCount /\ AllCommandsZero
          /\ venv # NoVenv
          /\ fault = "none"
          /\ ~DiagnosticPrinted
    /\ Finished =>
          \/ SuccessPrinted /\ status = 0
          \/ ~SuccessPrinted /\ DiagnosticPrinted /\ status = 1
C7_Witness == Finished /\ ~SuccessPrinted /\ PlanCompleted /\ venv # NoVenv

\* C8: once materialization is over (and no filesystem call failed), every
\* file a run into a fresh directory produces is present with the same
\* content as in that fresh run, whatever the target held before.
FreshRun == RunPlan(ThePlan, 1, <<>>, {<<>>, <<Root>>}, host)
MaterializationOver == OneArg /\ pc \notin {"main", "materialize"}
C8_RerunMatchesFresh ==
    (MaterializationOver /\ fault = "none") =>
        \A p \in DOMAIN FreshRun.files :
            p \in DOMAIN files /\ files[p].content = FreshRun.files[p].content

\* C9: a directory that already exists never makes materialization fail (a
\* directory-related error needs a regular file where a directory belongs),
\* and a pre-existing file outside the generator's file set keeps its
\* content and mode.
PathErrors ==
    {"FileExistsError", "NotADirectoryError", "FileNotFoundError", "IsADirectoryError"}
C9_ExistingDirsAndSiblings ==
    OneArg =>
        /\ exc.type \in PathErrors =>
              \E p \in DOMAIN files0 : p \in PlanDirs(ThePlan)
        /\ \A p \in DOMAIN files0 :
              p \notin PlanFiles(ThePlan) => (p \in DOMAIN files /\ files[p] = files0[p])
C9_Witness ==
    /\ OneArg /\ pc = "git_init"
    /\ PlanDirs(ThePlan) \subseteq dirs0
    /\ Join(base_path, "notes.txt") \in DOMAIN files0

\* C10 (as claimed): after materialization has completed the entry-point
\* script has mode rwxr-xr-x, for both generators.
EntryPoint == Join(base_path, IF gen = "django" THEN "manage.py" ELSE "main.py")
UpgradeText == Quoted(venv.pip_path, host) \o " install --upgrade pip"
BootstrapText ==
    IF gen = "django" THEN Quoted(venv.python_path, host) \o " manage.py migrate"
    ELSE Quoted(venv.pip_path, host) \o " install -e ."
RECURSIVE Substituted(_, _, _)
Substituted(t, i, name) ==
    IF i > Len(t) THEN ""
    ELSE IF i + 2 <= Len(t) /\ t[i] = "{" /\ t[i + 1] = "project_name" /\ t[i + 2] = "}"
    THEN name \o Substituted(t, i + 3, name)
    ELSE t[i] \o Substituted(t, i + 1, name)
OddNames == {"", " ", "a{b}", "{project_name}"}
AboutToRender ==
    /\ OneArg /\ pc = "materialize"
    /\ ThePlan[ip].op = "write" /\ ThePlan[ip].content.fmt
    /\ KwName(ThePlan[ip]) = "project_name"
FormatErrors == {"KeyError", "ValueError", "IndexError"}
C12_RenderingNeverFails ==
    /\ exc.type \notin FormatErrors
    /\ AboutToRender =>
          \A n \in OddNames \cup {NameText} :
              LET t == ThePlan[ip].content.tokens
                  r == Format(t, [project_name |-> n])
              IN  r.err = NoError /\ r.text = Substituted(t, 1, n)

\* C13: from the moment the creation of the virtual environment is about to
\* start, every file of the generator's file set is on disk, the manifest
\* (requirements.txt / setup.py), the entry point and README.md with the text
\* of their templates and every file with the content the plan gives it, and
\* from then on no step changes, removes or rewrites any of these files.
Manifest == Join(base_path, IF gen = "django" THEN "requirements.txt" ELSE "setup.py")
ManifestText == IF gen = "django" THEN REQUIREMENTS_TEMPLATE ELSE Substituted(SETUP_TEMPLATE, 1, NameText)
EntryPointText == IF gen = "django" THEN MANAGE_TEMPLATE ELSE MAIN_APP_TEMPLATE
ProvisioningReached ==
    /\ OneArg
    /\ \/ pc \in {"create_venv", "upgrade_pip", "install", "migrate", "report", "returned"}
       \/ venv # NoVenv
       \/ fault = "venv"
C13_FilesBeforeVenv ==
    /\ [](ProvisioningReached =>
            /\ \A p \in ExpectedFiles(gen, base_path) :
                  p \in DOMAIN files /\ files[p].content = FreshRun.files[p].content
            /\ files[Manifest].content = ManifestText
            /\ files[EntryPoint].content = EntryPointText
            /\ files[Join(base_path, "README.md")].content = ExpectedReadme(gen, NameText))
    /\ [][ProvisioningReached =>
            \A p \in ExpectedFiles(gen, base_path) :
                p \in DOMAIN files' /\ files'[p] = files[p]]_vars
C13_Witness ==
    /\ OneArg /\ venv # NoVenv /\ Len(cmds) >= 2
    /\ Manifest \in DOMAIN files0 /\ EntryPoint \in DOMAIN files0

\* C14: no step of a run removes a file or a directory, and a step changes
\* the content of a file only by writing that file as the current call of
\* the plan; in particular the step that fails and every step after a
\* failure (the handler, the exit) leave all files and directories written
\* before as they are.
Failing == pc' \in {"raised", "exiting"} /\ exc'.type # ""
AfterFailure == pc \in {"raised", "exiting"}
BeingWritten(p) ==
    pc = "materialize" /\ ThePlan[ip].op \in {"write", "chmod"} /\ ThePlan[ip].path = p
C14_NoRollback ==
    /\ [][ /\ dirs \subseteq dirs'
           /\ \A p \in DOMAIN files :
                 /\ p \in DOMAIN files'
                 /\ files'[p] # files[p] => BeingWritten(p) ]_vars
    /\ [][AfterFailure => (files' = files /\ dirs' = dirs)]_vars
    /\ [][(Failing /\ pc \in {"git_init", "create_venv", "upgrade_pip", "install", "migrate"})
             => (files' = files /\ dirs' = dirs)]_vars
C14_Witness ==
    /\ Finished /\ status = 1 /\ fault = "fs" /\ ip > 5
    /\ \E p \in DOMAIN files : p \notin DOMAIN files0

\* C15: the value create_and_activate_venv returned is exactly the three
\* paths <project>/venv/Scripts/activate.bat, .../python.exe, .../pip.exe on
\* Windows and <project>/venv/bin/activate, .../python, .../pip on any other
\* host, whatever the filesystem holds; and the activation command shown in
\* the success message is that activation path alone on Windows and
\* "source " followed by it elsewhere.
ProjectVenv == Join(base_path, "venv")
ActivationShown(line) == line[5]
C15_VenvPathsByHost ==
    /\ (venv # NoVenv /\ host = "Windows") =>
          /\ DOMAIN venv = {"activate_script", "python_path", "pip_path"}
          /\ venv.activate_script = ProjectVenv \o <<"Scripts", "activate.bat">>
          /\ venv.python_path = ProjectVenv \o <<"Scripts", "python.exe">>
          /\ venv.pip_path = ProjectVenv \o <<"Scripts", "pip.exe">>
    /\ (venv # NoVenv /\ host # "Windows") =>
          /\ DOMAIN venv = {"activate_script", "python_path", "pip_path"}
          /\ venv.activate_script = ProjectVenv \o <<"bin", "activate">>
          /\ venv.python_path = ProjectVenv \o <<"bin", "python">>
          /\ venv.pip_path = ProjectVenv \o <<"bin", "pip">>
    /\ \A i \in DOMAIN stdout :
          Kind(stdout[i]) = "\nProject " =>
              ActivationShown(stdout[i]) =
                  IF host = "Windows"
                  THEN PathStr(ProjectVenv \o <<"Scripts", "activate.bat">>, host)
                  ELSE "source " \o PathStr(ProjectVenv \o <<"bin", "activate">>, host)
C15_Witness == Finished /\ status = 0 /\ host = "Windows" /\ Printed("\nProject ")

\* C16: the calls of one materialization pass that create or write a file
\* (marker touches, dictionary entries, test_routes.py, project-level files)
\* address pairwise distinct paths: this holds of the whole pass when it
\* starts, and the call about to run never writes a path an earlier call of
\* the same pass wrote.
WritesFile(op) == op.op \in {"write", "touch"}
PairwiseDistinct(plan) ==
    \A i, j \in DOMAIN plan :
        (i < j /\ WritesFile(plan[i]) /\ WritesFile(plan[j]))
            => plan[i].path # plan[j].path
NotWrittenBefore(plan, j) ==
    WritesFile(plan[j]) =>
        \A i \in 1..(j - 1) : WritesFile(plan[i]) => plan[i].path # plan[j].path
C16_PathsWrittenOnce ==
    /\ (OneArg /\ pc = "materialize" /\ ip = 1) => PairwiseDistinct(ThePlan)
    /\ (OneArg /\ pc = "materialize") => NotWrittenBefore(ThePlan, ip)
C16_Witness ==
    /\ OneArg /\ gen = "fastapi" /\ pc = "materialize" /\ ip > 30
    /\ WritesFile(ThePlan[ip])

\* C17 (as claimed): once materialization into a target without files is
\* over, every package directory (Django: config, usecase1, usecase2 and
\* their migrations; FastAPI: src, src/common, src/usecase1, src/usecase2,
\* tests, tests/test_usecase1, tests/test_usecase2) holds an empty
\* __init__.py.
Marker(d) == Join(d, "__init__.py")
HasEmptyMarker(d) == Marker(d) \in DOMAIN files /\ files[Marker(d)].content = ""
DjangoPackages ==
    {base_path \o d : d \in {<<"config">>, <<"usecase1">>, <<"usecase2">>,
                             <<"usecase1", "migrations">>, <<"usecase2", "migrations">>}}
FastApiLeafPackages ==
    {base_path \o d : d \in {<<"src", "common">>, <<"src", "usecase1">>,
                             <<"src", "usecase2">>, <<"tests", "test_usecase1">>,
                             <<"tests", "test_usecase2">>}}
FastApiTopPackages == {Join(base_path, "src"), Join(base_path, "tests")}
ClaimedPackages ==
    IF gen = "django" THEN DjangoPackages
    ELSE FastApiLeafPackages \cup FastApiTopPackages
MaterializedFresh == MaterializationOver /\ FreshTarget /\ fault = "none"
C17_EveryPackageHasMarker ==
    MaterializedFresh => \A d \in ClaimedPackages : d \in dirs /\ HasEmptyMarker(d)

\* C17 (amended): once materialization into a target without files is over,
\* the Django directories config, usecase1, usecase2 and both migrations
\* directories, and the five FastAPI directories of the directories list
\* (src/common, src/usecase1, src/usecase2, tests/test_usecase1,
\* tests/test_usecase2) each hold an empty __init__.py; the FastAPI
\* directories src and tests exist but hold no __init__.py; and these are
\* all the __init__.py files under the target.
MarkersUnderTarget ==
    {p \in FilesUnder(base_path) : p[Len(p)] = "__init__.py"}
C17_MarkersOfListedDirs ==
    MaterializedFresh =>
        /\ gen = "django" =>
              /\ \A d \in DjangoPackages : d \in dirs /\ HasEmptyMarker(d)
              /\ MarkersUnderTarget = {Marker(d) : d \in DjangoPackages}
        /\ gen = "fastapi" =>
              /\ \A d \in FastApiLeafPackages : d \in dirs /\ HasEmptyMarker(d)
              /\ \A d \in FastApiTopPackages : d \in dirs /\ Marker(d) \notin DOMAIN files
              /\ MarkersUnderTarget = {Marker(d) : d \in FastApiLeafPackages}
C17_Witness == MaterializedFresh /\ gen = "fastapi" /\ Finished

\* C18: the content of every file a run has written depends on the project
\* name alone: it equals what the same generator writes on the other host
\* into an empty filesystem (for README.md and setup.py under the same name,
\* for every other file under a different name as well)
OtherHost == IF host = "Windows" THEN "Linux" ELSE "Windows"
OtherName == "another-project"
NameDependent(p) == p[Len(p)] \in {"README.md", "setup.py"}
ReferenceRun(project_name) ==
    RunPlan(Plan(gen, base_path, project_name), 1, <<>>, {<<>>, <<Root>>}, OtherHost)
WrittenBefore(plan, n) ==
    {plan[i].path : i \in {k \in 1..(n - 1) : WritesFile(plan[k])}}
SameContent(ps, ref) ==
    \A p \in ps : p \in DOMAIN ref.files /\ files[p].content = ref.files[p].content
C18_ContentDependsOnNameOnly ==
    (OneArg /\ pc # "main" /\ fault = "none") =>
        LET done == WrittenBefore(ThePlan, ip) IN
        /\ SameContent({p \in done : NameDependent(p)}, ReferenceRun(NameText))
        /\ SameContent({p \in done : ~NameDependent(p)}, ReferenceRun(OtherName))

\* C19: with a relative project name, the program path of every command
\* that starts a venv binary (pip upgrade, dependency install, bootstrap),
\* resolved against the directory the command runs in, is one of the
\* binaries venv creation put under <project>/venv, and that file exists.
RelativeName == OneArg /\ ~IsAbsolute(base_path)
StartsVenvBinary(c) == Len(c.exe) > 1
C19_VenvBinariesResolve ==
    RelativeName =>
        \A i \in DOMAIN cmds :
            StartsVenvBinary(cmds[i]) =>
                /\ Resolve(cmds[i].cwd, cmds[i].exe) \in VenvBinaries(ProjectVenv, host)
                /\ Resolve(cmds[i].cwd, cmds[i].exe) \in DOMAIN files

\* C20: when the Django generator has completed materialization, settings.py
\* and urls.py hold their templates and every project module these name
\* (usecase1.apps, usecase2.apps, config.urls, config.wsgi, usecase1.urls,
\* usecase2.urls) is a file this pass wrote, so it is there when migrate runs.
C20_ModuleReferencesClosed ==
    (gen = "django" /\ PlanCompleted) =>
        /\ files[base_path \o <<"config", "settings.py">>].content = SETTINGS_TEMPLATE
        /\ files[base_path \o <<"config", "urls.py">>].content = URLS_TEMPLATE
        /\ \A m \in SETTINGS_MODULES \cup URLS_MODULES :
              /\ ModuleFile(base_path, m) \in WrittenBefore(ThePlan, ip)
              /\ ModuleFile(base_path, m) \in DOMAIN files

=============================================================================
